---- MODULE Spec2Model ----
(***************************************************************************)
(* Eternal Flame API: the flame lifecycle and payment reconciliation.      *)
(*                                                                         *)
(* The repository holds two applications that serve the same endpoints:    *)
(* src/main.py ("root") and src/backend/main.py ("backend").  A deployment *)
(* runs one of them; impl says which.  Both use the document store of      *)
(* src/backend/database.py, the only database module of the repository.    *)
(*                                                                         *)
(* Outside the repository, modelled at their interface:                    *)
(*   - stripe.Webhook.construct_event: a signature is the pair of the key  *)
(*     and the raw body it was computed over, and verifies only against    *)
(*     that key and that body;                                             *)
(*   - stripe.checkout.Session.create: records a session, or fails;        *)
(*   - pydantic: field constraints as declared in the schemas;             *)
(*   - pymongo: a collection is a map from document id to document; the    *)
(*     handle db of src/main.py:182 is taken to be truth-testable.         *)
(***************************************************************************)
EXTENDS Naturals, Sequences, FiniteSets, TLC

(***************************************************************************)
(* Bounds of the model.                                                    *)
(***************************************************************************)
MaxFlames == 1
MaxReplies == 1
MaxClock == 1
MaxSessions == 1

(***************************************************************************)
(* Program constants.                                                      *)
(***************************************************************************)
NameMinLen == 1
RootNameMaxLen == 80
RootMessageMinLen == 10
RootMessageMaxLen == 4000
ReplyMessageMinLen == 3
ReplyMessageMaxLen == 2000
BackendNameMaxLen == 100
BackendMessageMaxLen == 5000
MaxPhotos == 3
BasicPrice == 499
PremiumPrice == 999
GalleryLimit == 100
RootAdminLimit == 200
BackendAdminLimit == 500

Impls == {"root", "backend"}

(***************************************************************************)
(* Python dictionaries are functions from keys to values; d.get(k, dflt).  *)
(***************************************************************************)
Has(d, k) == k \in DOMAIN d

Get(d, k, dflt) == IF k \in DOMAIN d THEN d[k] ELSE dflt

EmptyDict == [k \in {} |-> ""]

(***************************************************************************)
(* Identifiers the store and the token generator hand out, in order.  A    *)
(* well-formed id that names no document is an id not handed out yet.      *)
(***************************************************************************)
IdPool == <<"f1", "f2", "f3", "f4">>

ObjectIds == {IdPool[i] : i \in 1..Len(IdPool)}

NotAnObjectId == "not-an-objectid"

NewId(coll) == IdPool[Cardinality(DOMAIN coll) + 1]

TokenPool == <<"t1", "t2", "t3", "t4">>

token_urlsafe(coll) == TokenPool[Cardinality(DOMAIN coll) + 1]

(***************************************************************************)
(* Photo URLs: the scheme and the extension the path ends in.              *)
(***************************************************************************)
JpgUrl == [scheme |-> "https", ext |-> ".jpg"]

UpperPngUrl == [scheme |-> "https", ext |-> ".PNG"]

ExeUrl == [scheme |-> "https", ext |-> ".exe"]

AllowedExts == {".jpg", ".jpeg", ".png", ".gif", ".webp"}

\* str.lower() on the strings the requests carry.
Lower(s) ==
    IF s = ".PNG" THEN ".png"
    ELSE IF s = "Alex" THEN "alex"
    ELSE IF s = "Sam" THEN "sam"
    ELSE s

IsHttpUrl(u) == u.scheme \in {"http", "https"}

EndsWithAllowed(u) == \E e \in AllowedExts : Lower(u.ext) = e

Take(s, n) == IF Len(s) <= n THEN s ELSE SubSeq(s, 1, n)

Limit(S, n) == IF Cardinality(S) <= n THEN S ELSE CHOOSE T \in SUBSET S : Cardinality(T) = n

(***************************************************************************)
(* State.                                                                  *)
(*   impl                  which application is deployed                   *)
(*   STRIPE_SECRET_KEY ... the environment read at start-up                *)
(*   flames                collection "flame": id -> document              *)
(*   replies               collection "flamereply"/"reply": id -> document *)
(*   sessions              the checkout sessions the payment provider      *)
(*                         holds, created by stripe.checkout.Session.create*)
(*   now                   the server clock                                *)
(*   lastOp                the last request handled and its response       *)
(*   prev                  the store before that request                   *)
(*   verifiedFor           flame ids named by the checkout-completed       *)
(*                         events whose signature was genuine, handled     *)
(*                         while that flame was stored                     *)
(***************************************************************************)
VARIABLES impl, STRIPE_SECRET_KEY, STRIPE_WEBHOOK_SECRET, ADMIN_KEY, HCAPTCHA_SECRET,
          flames, replies, sessions, now, lastOp, prev, verifiedFor

env == <<impl, STRIPE_SECRET_KEY, STRIPE_WEBHOOK_SECRET, ADMIN_KEY, HCAPTCHA_SECRET>>

vars == <<impl, STRIPE_SECRET_KEY, STRIPE_WEBHOOK_SECRET, ADMIN_KEY, HCAPTCHA_SECRET,
          flames, replies, sessions, now, lastOp, prev, verifiedFor>>

Store == [flames |-> flames, replies |-> replies]

(***************************************************************************)
(* Document Store Adapter (src/backend/database.py).                       *)
(***************************************************************************)
create_document(coll, id, data, t) ==
    LET stamped == [k \in DOMAIN data \cup {"created_at", "updated_at"} |->
                       IF k = "updated_at" THEN t
                       ELSE IF k = "created_at" THEN Get(data, "created_at", t)
                       ELSE data[k]]
    IN  [i \in DOMAIN coll \cup {id} |-> IF i = id THEN stamped ELSE coll[i]]

\* A document matches a filter when it carries every field of it.
Matches(doc, filt) == \A k \in DOMAIN filt : Has(doc, k) /\ doc[k] = filt[k]

\* find_one by the document's id.
get_document(coll, id) == IF id \in DOMAIN coll THEN {coll[id]} ELSE {}

get_documents_unfiltered(coll, filt, limit) == Limit({coll[i] : i \in DOMAIN coll}, limit)

get_documents(coll, filt, limit) ==
    Limit({coll[i] : i \in {j \in DOMAIN coll : Matches(coll[j], filt)}}, limit)

SetFields(doc, update) ==
    [k \in DOMAIN doc \cup DOMAIN update |-> IF k \in DOMAIN update THEN update[k] ELSE doc[k]]

update_one_upsert(coll, id, update) ==
    IF id \in DOMAIN coll THEN [coll EXCEPT ![id] = SetFields(coll[id], update)]
    ELSE [i \in DOMAIN coll \cup {id} |-> IF i = id THEN update ELSE coll[i]]

update_one(coll, id, update) ==
    IF id \in DOMAIN coll THEN [coll EXCEPT ![id] = SetFields(coll[id], update)] ELSE coll

update_document(coll, id, update, t) == update_one(coll, id, ("updated_at" :> t) @@ update)

(***************************************************************************)
(* Validation Layer.                                                       *)
(***************************************************************************)
Tiers == {"basic", "premium"}

NoPhotos == << >>

\* FlameCreate.validate_photos of src/schemas.py: reject on violation.
RootValidatePhotos(v) ==
    /\ Len(v) <= MaxPhotos
    /\ \A i \in 1..Len(v) : EndsWithAllowed(v[i])

\* FlameCreate(**payload) of src/schemas.py raises no ValidationError.
RootFlameCreateValid(payload) ==
    /\ Has(payload, "recipient_name")
    /\ Len(payload.recipient_name) >= NameMinLen
    /\ Len(payload.recipient_name) <= RootNameMaxLen
    /\ Has(payload, "sender_name")
    /\ Len(payload.sender_name) >= NameMinLen
    /\ Len(payload.sender_name) <= RootNameMaxLen
    /\ Has(payload, "message")
    /\ Len(payload.message) >= RootMessageMinLen
    /\ Len(payload.message) <= RootMessageMaxLen
    /\ Has(payload, "photos") =>
          /\ \A i \in 1..Len(payload.photos) : IsHttpUrl(payload.photos[i])
          /\ RootValidatePhotos(payload.photos)
    /\ Has(payload, "tier") => payload.tier \in Tiers

\* FlameCreate of src/backend/schemas.py accepts the request body.
BackendFlameCreateValid(payload) ==
    /\ Has(payload, "recipient_name")
    /\ Len(payload.recipient_name) <= BackendNameMaxLen
    /\ Has(payload, "sender_name") => Len(payload.sender_name) <= BackendNameMaxLen
    /\ Has(payload, "message")
    /\ Len(payload.message) <= BackendMessageMaxLen
    /\ Has(payload, "photos") => \A i \in 1..Len(payload.photos) : IsHttpUrl(payload.photos[i])
    /\ Has(payload, "tier")
    /\ payload.tier \in Tiers

BackendPhotoSafe(u) == u.scheme = "https" /\ EndsWithAllowed(u)

\* validate_photos of src/backend/main.py: drop what is not safe, keep three.
validate_photos(photos) == Take(SelectSeq(photos, BackendPhotoSafe), MaxPhotos)

\* FlameReply of src/schemas.py, built from the path id and the payload.
RootFlameReplyValid(payload) ==
    /\ Has(payload, "message")
    /\ Len(payload.message) >= ReplyMessageMinLen
    /\ Len(payload.message) <= ReplyMessageMaxLen

\* FlameReply of src/backend/schemas.py, the request body.
BackendFlameReplyValid(payload) ==
    /\ Has(payload, "flame_id")
    /\ Has(payload, "message")
    /\ Len(payload.message) <= ReplyMessageMaxLen

(***************************************************************************)
(* Slugs.  A slug is kept as its parts: the normalised names and the       *)
(* random token.                                                           *)
(***************************************************************************)
RootGenerateSlug(recipient, sender, tok) ==
    [base |-> <<Lower(recipient), "-", Lower(sender)>>, token |-> tok]

BackendGenerateSlug(recipient, sender, tok) ==
    IF sender = "" THEN [base |-> <<Lower(recipient)>>, token |-> tok]
    ELSE [base |-> <<Lower(recipient), "-from-", Lower(sender)>>, token |-> tok]

\* verify_hcaptcha of src/main.py; remoteOk is the challenge service's answer
\* (FALSE also when the call fails).
verify_hcaptcha(secret, payload, remoteOk) ==
    IF secret = "" THEN TRUE
    ELSE IF ~Has(payload, "captcha_token") \/ payload.captcha_token = "" THEN FALSE
    ELSE remoteOk /\ payload.captcha_token = "solved"

(***************************************************************************)
(* Responses.                                                              *)
(***************************************************************************)
Ok(body) == [status |-> 200, body |-> body]

Err(code, detail) == [status |-> code, detail |-> detail]

(***************************************************************************)
(* Flame Lifecycle Service: creation.                                      *)
(***************************************************************************)
Without(d, k) == [j \in DOMAIN d \ {k} |-> d[j]]

\* obj.model_dump() of src/main.py:114: the declared fields, defaults filled
\* in, anything else the client sent ignored.
RootModelDump(payload) ==
    [recipient_name       |-> payload.recipient_name,
     sender_name          |-> payload.sender_name,
     message              |-> payload.message,
     photos               |-> Get(payload, "photos", NoPhotos),
     flame_color          |-> Get(payload, "flame_color", "#FF4D4D"),
     tier                 |-> Get(payload, "tier", "basic"),
     schedule_date        |-> "None",
     allow_public_gallery |-> Get(payload, "allow_public_gallery", FALSE)]

RootFlameDocClientStatus(payload, slug, t) ==
    SetFields(RootModelDump(payload),
              [slug |-> slug, payment_status |-> Get(payload, "payment_status", "unpaid"),
               created_at |-> t, updated_at |-> t])

\* src/main.py:114-120
RootFlameDoc(payload, slug, t) ==
    SetFields(RootModelDump(payload),
              [slug |-> slug, payment_status |-> "unpaid", created_at |-> t, updated_at |-> t])

\* create_flame of src/main.py
RootCreateFlame(coll, payload, remoteOk, t) ==
    IF ~verify_hcaptcha(HCAPTCHA_SECRET, payload, remoteOk)
    THEN [flames |-> coll, resp |-> Err(400, "CAPTCHA failed")]
    ELSE IF ~RootFlameCreateValid(Without(payload, "captcha_token"))
    THEN [flames |-> coll, resp |-> Err(422, "validation error")]
    ELSE LET obj  == Without(payload, "captcha_token")
             slug == RootGenerateSlug(obj.recipient_name, obj.sender_name, token_urlsafe(coll))
             id   == NewId(coll)
         IN  [flames |-> create_document(coll, id, RootFlameDoc(obj, slug, t), t),
              resp   |-> Ok([id |-> id, slug |-> slug, payment_status |-> "unpaid"])]

\* src/backend/main.py:70-87
BackendFlameDoc(payload, id, slug, t) ==
    [id                   |-> id,
     recipient_name       |-> payload.recipient_name,
     sender_name          |-> Get(payload, "sender_name", "Anonymous"),
     message              |-> payload.message,
     photos               |-> validate_photos(Get(payload, "photos", NoPhotos)),
     flame_color          |-> Get(payload, "flame_color", "red"),
     tier                 |-> payload.tier,
     scheduled_for        |-> "None",
     payment_status       |-> "pending",
     slug                 |-> slug,
     burn_start           |-> t,
     watermark            |-> (payload.tier # "premium"),
     allow_public_gallery |-> Get(payload, "allow_public_gallery", FALSE)]

\* Flame(**doc, created_at=...) of src/backend/main.py:89 and :150: a keyword
\* given twice is a TypeError, which the framework answers with 500.
BackendFlameResponse(doc) ==
    IF Has(doc, "created_at")
    THEN Err(500, "TypeError: multiple values for keyword argument 'created_at'")
    ELSE Ok([id |-> doc.id, slug |-> doc.slug, payment_status |-> doc.payment_status])

\* create_flame of src/backend/main.py
BackendCreateFlame(coll, payload, t) ==
    IF ~BackendFlameCreateValid(payload)
    THEN [flames |-> coll, resp |-> Err(422, "validation error")]
    ELSE LET slug   == BackendGenerateSlug(payload.recipient_name, Get(payload, "sender_name", ""),
                                           token_urlsafe(coll))
             id     == NewId(coll)
             stored == create_document(coll, id, BackendFlameDoc(payload, id, slug, t), t)
         IN  [flames |-> stored, resp |-> BackendFlameResponse(stored[id])]

(***************************************************************************)
(* Payment Gateway Adapter.                                                *)
(***************************************************************************)
Sign(key, body) == [key |-> key, signed |-> body]

NoSignature == [missing |-> TRUE]

\* The signature on the request was computed by the holder of the configured
\* secret over this very body.
Genuine(req) ==
    /\ STRIPE_WEBHOOK_SECRET # ""
    /\ req.sig = Sign(STRIPE_WEBHOOK_SECRET, req.payload)

construct_event_unchecked(payload, sig_header, secret) == TRUE

\* stripe.Webhook.construct_event(payload, sig_header, secret) returns the event.
construct_event(payload, sig_header, secret) ==
    /\ Has(sig_header, "key")
    /\ sig_header.key = secret
    /\ sig_header.signed = payload

Completed == "checkout.session.completed"

IsCompleted(event) == event.type = Completed

MetaFlameId(event) == Get(event.metadata, "flame_id", "")

\* The session stripe.checkout.Session.create records: amount and metadata.
Session(amount, flame_id, tier) ==
    [unit_amount |-> amount, metadata |-> [flame_id |-> flame_id, tier |-> tier]]

\* checkout of src/main.py; gatewayOk: Session.create did not raise.
RootCheckout(coll, payload, gatewayOk) ==
    IF STRIPE_SECRET_KEY = ""
    THEN [created |-> {}, resp |-> Err(400, "Stripe not configured")]
    ELSE IF Get(payload, "flame_id", "") = ""
    THEN [created |-> {}, resp |-> Err(422, "flame_id required")]
    ELSE LET flame_id == payload.flame_id
             tier     == Get(payload, "tier", "basic")
             price    == IF tier = "basic" THEN BasicPrice ELSE PremiumPrice
         IN  IF ~gatewayOk
             THEN [created |-> {}, resp |-> Err(400, "gateway error")]
             ELSE [created |-> {Session(price, flame_id, tier)},
                   resp    |-> Ok([url |-> "hosted-checkout"])]

\* price_map.get(req.tier) of src/backend/main.py:102-103; 0 stands for None.
BackendPriceMap(tier) ==
    IF tier = "basic" THEN BasicPrice ELSE IF tier = "premium" THEN PremiumPrice ELSE 0

\* create_checkout_session of src/backend/main.py; a gateway failure is not
\* caught there.
BackendCheckout(coll, payload, gatewayOk) ==
    IF ~(Has(payload, "flame_id") /\ Has(payload, "tier"))
    THEN [created |-> {}, resp |-> Err(422, "validation error")]
    ELSE IF get_document(coll, payload.flame_id) = {}
    THEN [created |-> {}, resp |-> Err(404, "Flame not found")]
    ELSE IF BackendPriceMap(payload.tier) = 0
    THEN [created |-> {}, resp |-> Err(400, "Invalid tier")]
    ELSE IF ~gatewayOk
    THEN [created |-> {}, resp |-> Err(500, "gateway error")]
    ELSE LET flame == coll[payload.flame_id]
         IN  [created |-> {Session(BackendPriceMap(payload.tier), flame.id, payload.tier)},
              resp    |-> Ok([url |-> "hosted-checkout"])]

Received == Ok([received |-> TRUE])

RootApplyEventToggle(coll, event, t) ==
    IF IsCompleted(event) /\ MetaFlameId(event) # "" /\ MetaFlameId(event) \in DOMAIN coll
    THEN update_one(coll, MetaFlameId(event),
                    [payment_status |-> IF coll[MetaFlameId(event)].payment_status = "paid"
                                        THEN "unpaid" ELSE "paid",
                     updated_at |-> t])
    ELSE coll

\* src/main.py:179-186: the update of the flame a completed event names.
RootApplyEvent(coll, event, t) ==
    IF IsCompleted(event) /\ MetaFlameId(event) # "" /\ MetaFlameId(event) \in ObjectIds
    THEN update_one(coll, MetaFlameId(event), [payment_status |-> "paid", updated_at |-> t])
    ELSE coll

\* stripe_webhook of src/main.py
RootStripeWebhook(coll, req, t) ==
    IF STRIPE_WEBHOOK_SECRET = ""
    THEN [flames |-> coll, resp |-> Err(400, "Webhook not configured")]
    ELSE IF ~construct_event(req.payload, req.sig, STRIPE_WEBHOOK_SECRET)
    THEN [flames |-> coll, resp |-> Err(400, "Invalid signature")]
    ELSE [flames |-> RootApplyEvent(coll, req.payload, t), resp |-> Received]

\* src/backend/main.py:136-141
BackendApplyEvent(coll, event, t) ==
    IF IsCompleted(event) /\ MetaFlameId(event) # ""
    THEN update_document(coll, MetaFlameId(event),
                         [payment_status |-> "paid", tier |-> Get(event.metadata, "tier", "basic")], t)
    ELSE coll

\* stripe_webhook of src/backend/main.py
BackendStripeWebhook(coll, req, t) ==
    IF ~construct_event(req.payload, req.sig, STRIPE_WEBHOOK_SECRET)
    THEN [flames |-> coll, resp |-> Err(400, "Invalid signature")]
    ELSE [flames |-> BackendApplyEvent(coll, req.payload, t), resp |-> Received]

(***************************************************************************)
(* Access Endpoints.                                                       *)
(***************************************************************************)
FindBySlug(coll, slug) == get_documents(coll, [slug |-> slug], 1)

\* get_flame of src/main.py
RootGetFlame(coll, slug) ==
    IF FindBySlug(coll, slug) = {} THEN Err(404, "Flame not found")
    ELSE Ok([items |-> FindBySlug(coll, slug)])

\* get_flame of src/backend/main.py
BackendGetFlame(coll, slug) ==
    IF FindBySlug(coll, slug) = {} THEN Err(404, "Not found")
    ELSE BackendFlameResponse(CHOOSE d \in FindBySlug(coll, slug) : TRUE)

\* reply_flame of src/main.py: no flame is looked up.  A payload that carries
\* flame_id itself gives FlameReply the keyword twice: a TypeError, 500.
RootReplyFlame(coll, rcoll, flame_id, payload, t) ==
    IF Has(payload, "flame_id")
    THEN [replies |-> rcoll, resp |-> Err(500, "TypeError: multiple values for keyword argument 'flame_id'")]
    ELSE IF ~RootFlameReplyValid(payload)
    THEN [replies |-> rcoll, resp |-> Err(422, "validation error")]
    ELSE [replies |-> create_document(rcoll, NewId(rcoll),
                                      SetFields(payload, [flame_id |-> flame_id, created_at |-> t]), t),
          resp    |-> Ok([ok |-> TRUE])]

\* reply_flame of src/backend/main.py
BackendReplyFlame(coll, rcoll, flame_id, payload, t) ==
    IF ~BackendFlameReplyValid(payload)
    THEN [replies |-> rcoll, resp |-> Err(422, "validation error")]
    ELSE IF get_document(coll, flame_id) = {}
    THEN [replies |-> rcoll, resp |-> Err(404, "Flame not found")]
    ELSE IF coll[flame_id].tier # "premium"
    THEN [replies |-> rcoll, resp |-> Err(403, "Replies available for Premium flames")]
    ELSE [replies |-> create_document(rcoll, NewId(rcoll),
                                      [flame_id    |-> flame_id,
                                       message     |-> payload.message,
                                       sender_name |-> Get(payload, "sender_name", "None"),
                                       created_at  |-> t], t),
          resp    |-> Ok([status |-> "ok"])]

IsPaid(d) == d.payment_status = "paid"

\* gallery of src/main.py, public_gallery of src/backend/main.py
Gallery(coll) == Ok([items |-> get_documents(coll, [allow_public_gallery |-> TRUE, payment_status |-> "paid"], GalleryLimit)])

RootAdminAuthorized(headers) ==
    ~(ADMIN_KEY = "" \/ ~Has(headers, "x-admin-key") \/ headers["x-admin-key"] # ADMIN_KEY)

BackendAdminAuthorized(headers) ==
    ~(~Has(headers, "x-admin-key") \/ headers["x-admin-key"] # ADMIN_KEY)

\* admin_flames of src/main.py
RootAdminFlames(coll, headers) ==
    IF ~RootAdminAuthorized(headers) THEN Err(401, "Unauthorized")
    ELSE Ok([items |-> get_documents(coll, [payment_status |-> "paid"], RootAdminLimit)])

\* admin_flames of src/backend/main.py
BackendAdminFlames(coll, headers) ==
    IF ~BackendAdminAuthorized(headers) THEN Err(401, "Unauthorized")
    ELSE Ok([items |-> get_documents(coll, [payment_status |-> "paid"], BackendAdminLimit)])

(***************************************************************************)
(* Requests the clients, the payment provider and an attacker send.        *)
(***************************************************************************)
BasePayload ==
    [recipient_name |-> "Alex", sender_name |-> "Sam",
     message |-> "We miss you dearly and always will", tier |-> "basic"]

RichPayload == [photos |-> <<UpperPngUrl>>, allow_public_gallery |-> TRUE] @@ BasePayload

CreatePayloads ==
    { BasePayload,
      [BasePayload EXCEPT !.tier = "premium"],
      RichPayload,
      [payment_status |-> "paid"] @@ BasePayload,
      [BasePayload EXCEPT !.message = "hi"],
      [photos |-> <<UpperPngUrl, ExeUrl>>] @@ RichPayload,
      [photos |-> <<JpgUrl, UpperPngUrl, JpgUrl, JpgUrl>>] @@ BasePayload,
      [BasePayload EXCEPT !.tier = "gold"],
      [captcha_token |-> "solved"] @@ BasePayload,
      [captcha_token |-> "unsolved"] @@ BasePayload }

RequestIds == {"f1", "f2"}

CheckoutPayloads ==
    {[flame_id |-> "f1", tier |-> t] : t \in {"basic", "premium", "gold"}}
    \cup {[flame_id |-> "f2", tier |-> "premium"], [tier |-> "basic"], [flame_id |-> "f1"]}

Event(type, metadata) == [type |-> type, metadata |-> metadata]

Metadatas ==
    {EmptyDict}
    \cup {[flame_id |-> f] : f \in RequestIds \cup {NotAnObjectId}}
    \cup {[flame_id |-> f, tier |-> "premium"] : f \in RequestIds}

Events == {Event(Completed, m) : m \in Metadatas} \cup {Event("charge.succeeded", [flame_id |-> "f1"])}

ForgedEvents == {Event(Completed, [flame_id |-> "f1"])}

\* What the provider delivers, and what anyone else can post: no signature,
\* a signature under another key, a genuine signature lifted from another body.
LiftedSignature == Sign("whsec_test", Event("charge.succeeded", [flame_id |-> "f1"]))

WebhookRequests ==
    {[payload |-> e, sig |-> Sign("whsec_test", e)] : e \in Events}
    \cup UNION {{[payload |-> e, sig |-> h] : h \in {NoSignature, Sign("forged", e), LiftedSignature}} :
                   e \in ForgedEvents}

ReplyPayloads ==
    {[message |-> "thank you"], [message |-> "hi"], [flame_id |-> "f1", message |-> "thank you"]}

UnknownSlug == [base |-> <<"alex", "-", "sam">>, token |-> "guess"]

AdminHeaders == {EmptyDict} \cup {[k \in {"x-admin-key"} |-> v] : v \in {"admin123", "letmein", ""}}

(***************************************************************************)
(* Initial state and actions.                                              *)
(***************************************************************************)
Op(op, req, resp, created) ==
    [op |-> op, req |-> req, resp |-> resp, created |-> created,
     replay |-> (lastOp.op = op /\ lastOp.req = req)]

\* The environment of a deployment.  src/main.py defaults every secret to
\* the empty string (nothing configured); src/backend/main.py defaults them
\* to the values below.
Environments ==
    { [impl |-> "root", stripe |-> "", webhook |-> "", admin |-> "", hcaptcha |-> ""],
      [impl |-> "root", stripe |-> "sk_test_123", webhook |-> "whsec_test", admin |-> "admin123", hcaptcha |-> ""],
      [impl |-> "root", stripe |-> "sk_test_123", webhook |-> "whsec_test", admin |-> "admin123", hcaptcha |-> "hsec"],
      [impl |-> "backend", stripe |-> "sk_test_123", webhook |-> "whsec_test", admin |-> "admin123", hcaptcha |-> ""] }

Init ==
    /\ \E e \in Environments :
          /\ impl = e.impl
          /\ STRIPE_SECRET_KEY = e.stripe
          /\ STRIPE_WEBHOOK_SECRET = e.webhook
          /\ ADMIN_KEY = e.admin
          /\ HCAPTCHA_SECRET = e.hcaptcha
    /\ flames = EmptyDict
    /\ replies = EmptyDict
    /\ sessions = {}
    /\ now = 0
    /\ lastOp = [op |-> "start", req |-> EmptyDict, resp |-> Ok(EmptyDict), created |-> {}, replay |-> FALSE]
    /\ prev = [flames |-> EmptyDict, replies |-> EmptyDict]
    /\ verifiedFor = {}

Handled(op, req, resp, created) ==
    /\ lastOp' = Op(op, req, resp, created)
    /\ prev' = Store

Tick ==
    /\ now < MaxClock
    /\ now' = now + 1
    /\ UNCHANGED <<env, sessions, flames, replies, lastOp, prev, verifiedFor>>

Root_create_flame ==
    /\ impl = "root"
    /\ Cardinality(DOMAIN flames) < MaxFlames
    /\ \E payload \in CreatePayloads, remoteOk \in BOOLEAN :
          LET r == RootCreateFlame(flames, payload, remoteOk, now)
          IN  /\ flames' = r.flames
              /\ Handled("create_flame", payload, r.resp, {})
    /\ UNCHANGED <<env, sessions, replies, now, verifiedFor>>

Backend_create_flame ==
    /\ impl = "backend"
    /\ Cardinality(DOMAIN flames) < MaxFlames
    /\ \E payload \in CreatePayloads :
          LET r == BackendCreateFlame(flames, payload, now)
          IN  /\ flames' = r.flames
              /\ Handled("create_flame", payload, r.resp, {})
    /\ UNCHANGED <<env, sessions, replies, now, verifiedFor>>

Root_checkout ==
    /\ impl = "root"
    /\ \E payload \in CheckoutPayloads, gatewayOk \in BOOLEAN :
          LET r == RootCheckout(flames, payload, gatewayOk)
          IN  /\ r.created \subseteq sessions \/ Cardinality(sessions) < MaxSessions
              /\ sessions' = sessions \cup r.created
              /\ Handled("checkout", payload, r.resp, r.created)
    /\ UNCHANGED <<env, flames, replies, now, verifiedFor>>

Backend_create_checkout_session ==
    /\ impl = "backend"
    /\ \E payload \in CheckoutPayloads, gatewayOk \in BOOLEAN :
          LET r == BackendCheckout(flames, payload, gatewayOk)
          IN  /\ r.created \subseteq sessions \/ Cardinality(sessions) < MaxSessions
              /\ sessions' = sessions \cup r.created
              /\ Handled("checkout", payload, r.resp, r.created)
    /\ UNCHANGED <<env, flames, replies, now, verifiedFor>>

\* The provider reports the completion of a session it holds: the event
\* carries the session (event["data"]["object"]), here its metadata.
SessionCompleted(s) == Event(Completed, s.metadata)

ProviderRequests ==
    {[payload |-> SessionCompleted(s), sig |-> Sign("whsec_test", SessionCompleted(s))] : s \in sessions}

\* The flame a genuine completed event names, if it is stored now.
NamedNow(req) ==
    IF Genuine(req) /\ IsCompleted(req.payload) /\ MetaFlameId(req.payload) \in DOMAIN flames
    THEN {MetaFlameId(req.payload)} ELSE {}

Root_stripe_webhook ==
    /\ impl = "root"
    /\ \E req \in WebhookRequests \cup ProviderRequests :
          LET r == RootStripeWebhook(flames, req, now)
          IN  /\ flames' = r.flames
              /\ Handled("stripe_webhook", req, r.resp, {})
              /\ verifiedFor' = verifiedFor \cup NamedNow(req)
    /\ UNCHANGED <<env, sessions, replies, now>>

Backend_stripe_webhook ==
    /\ impl = "backend"
    /\ \E req \in WebhookRequests \cup ProviderRequests :
          LET r == BackendStripeWebhook(flames, req, now)
          IN  /\ flames' = r.flames
              /\ Handled("stripe_webhook", req, r.resp, {})
              /\ verifiedFor' = verifiedFor \cup NamedNow(req)
    /\ UNCHANGED <<env, sessions, replies, now>>

Slugs == {flames[i].slug : i \in DOMAIN flames} \cup {UnknownSlug}

Root_get_flame ==
    /\ impl = "root"
    /\ \E slug \in Slugs : Handled("get_flame", [slug |-> slug], RootGetFlame(flames, slug), {})
    /\ UNCHANGED <<env, sessions, flames, replies, now, verifiedFor>>

Backend_get_flame ==
    /\ impl = "backend"
    /\ \E slug \in Slugs : Handled("get_flame", [slug |-> slug], BackendGetFlame(flames, slug), {})
    /\ UNCHANGED <<env, sessions, flames, replies, now, verifiedFor>>

Root_reply_flame ==
    /\ impl = "root"
    /\ Cardinality(DOMAIN replies) < MaxReplies
    /\ \E flame_id \in RequestIds, payload \in ReplyPayloads :
          LET r == RootReplyFlame(flames, replies, flame_id, payload, now)
          IN  /\ replies' = r.replies
              /\ Handled("reply_flame", [flame_id |-> flame_id, payload |-> payload], r.resp, {})
    /\ UNCHANGED <<env, sessions, flames, now, verifiedFor>>

Backend_reply_flame ==
    /\ impl = "backend"
    /\ Cardinality(DOMAIN replies) < MaxReplies
    /\ \E flame_id \in RequestIds, payload \in ReplyPayloads :
          LET r == BackendReplyFlame(flames, replies, flame_id, payload, now)
          IN  /\ replies' = r.replies
              /\ Handled("reply_flame", [flame_id |-> flame_id, payload |-> payload], r.resp, {})
    /\ UNCHANGED <<env, sessions, flames, now, verifiedFor>>

Root_gallery ==
    /\ impl = "root"
    /\ Handled("gallery", EmptyDict, Gallery(flames), {})
    /\ UNCHANGED <<env, sessions, flames, replies, now, verifiedFor>>

Backend_public_gallery ==
    /\ impl = "backend"
    /\ Handled("gallery", EmptyDict, Gallery(flames), {})
    /\ UNCHANGED <<env, sessions, flames, replies, now, verifiedFor>>

Root_admin_flames ==
    /\ impl = "root"
    /\ \E headers \in AdminHeaders :
          Handled("admin_flames", [headers |-> headers], RootAdminFlames(flames, headers), {})
    /\ UNCHANGED <<env, sessions, flames, replies, now, verifiedFor>>

Backend_admin_flames ==
    /\ impl = "backend"
    /\ \E headers \in AdminHeaders :
          Handled("admin_flames", [headers |-> headers], BackendAdminFlames(flames, headers), {})
    /\ UNCHANGED <<env, sessions, flames, replies, now, verifiedFor>>

Next ==
    \/ Tick
    \/ Root_create_flame
    \/ Backend_create_flame
    \/ Root_checkout
    \/ Backend_create_checkout_session
    \/ Root_stripe_webhook
    \/ Backend_stripe_webhook
    \/ Root_get_flame
    \/ Backend_get_flame
    \/ Root_reply_flame
    \/ Backend_reply_flame
    \/ Root_gallery
    \/ Backend_public_gallery
    \/ Root_admin_flames
    \/ Backend_admin_flames

Spec == Init /\ [][Next]_vars

(***************************************************************************)
(* Payment reconciliation alone: the operations that write or list the     *)
(* payment state of a flame.                                               *)
(***************************************************************************)
NextPayments ==
    \/ Tick
    \/ Root_create_flame
    \/ Backend_create_flame
    \/ Root_stripe_webhook
    \/ Backend_stripe_webhook
    \/ Root_admin_flames
    \/ Backend_admin_flames

SpecPayments == Init /\ [][NextPayments]_vars

(***************************************************************************)
(* Properties.                                                             *)
(***************************************************************************)
ClientOps == {"create_flame", "checkout", "reply_flame", "get_flame", "gallery", "admin_flames"}

Status == lastOp.resp.status

StoreUnchanged == flames = prev.flames /\ replies = prev.replies

\* The last request was a webhook delivery.
Delivered == lastOp.op = "stripe_webhook"

\* ... of a checkout-completed event with a genuine signature.
DeliveredCompleted == Delivered /\ Genuine(lastOp.req) /\ IsCompleted(lastOp.req.payload)

NamedFlame == MetaFlameId(lastOp.req.payload)

\* C1: a flame is paid only if a checkout-completed event with a genuine
\* signature naming it was handled before, and no client-facing operation
\* sets or changes the payment_status of a flame that already exists.
C1_PaidOnlyByVerifiedEvent ==
    /\ \A f \in DOMAIN flames : IsPaid(flames[f]) => f \in verifiedFor
    /\ lastOp.op \in ClientOps =>
          \A f \in DOMAIN prev.flames :
             f \in DOMAIN flames /\ flames[f].payment_status = prev.flames[f].payment_status

C1_Witness ==
    /\ lastOp.op \in ClientOps
    /\ \E f \in DOMAIN prev.flames : IsPaid(flames[f]) /\ f \in verifiedFor

\* C2: a webhook request whose signature is not genuine is answered 400
\* (Invalid signature, when a secret is configured) and no flame and no
\* reply changes, whatever the payload says.
C2_BadSignatureChangesNothing ==
    (Delivered /\ ~Genuine(lastOp.req)) =>
        /\ Status = 400
        /\ STRIPE_WEBHOOK_SECRET # "" => lastOp.resp.detail = "Invalid signature"
        /\ StoreUnchanged

C2_Witness ==
    /\ Delivered /\ ~Genuine(lastOp.req)
    /\ STRIPE_WEBHOOK_SECRET # ""
    /\ Has(lastOp.req.sig, "key")
    /\ IsCompleted(lastOp.req.payload)
    /\ NamedFlame \in DOMAIN flames
    /\ ~IsPaid(flames[NamedFlame])
    /\ Status = 400

\* The deployed application's validation accepts the creation input and the
\* challenge passed.
CreateAccepted ==
    /\ lastOp.op = "create_flame"
    /\ Status # 400
    /\ IF impl = "root" THEN RootFlameCreateValid(Without(lastOp.req, "captcha_token"))
       ELSE BackendFlameCreateValid(lastOp.req)

NewFlames == DOMAIN flames \ DOMAIN prev.flames

\* C3: for every valid creation input the flame persisted and the response
\* returned both have payment_status = unpaid, whatever the client supplied.
C3_CreatedUnpaid ==
    CreateAccepted =>
        /\ NewFlames # {}
        /\ \A f \in NewFlames : flames[f].payment_status = "unpaid"
        /\ Status = 200
        /\ lastOp.resp.body.payment_status = "unpaid"

\* The same event delivered again, nothing but the clock in between, naming
\* a flame that is stored.
Replayed == DeliveredCompleted /\ lastOp.replay /\ NamedFlame \in DOMAIN prev.flames

WithoutUpdatedAt(coll) == [i \in DOMAIN coll |-> Without(coll[i], "updated_at")]

\* C4 as stated: a second delivery of the same verified checkout-completed
\* event leaves the store exactly as the first delivery left it, the flame paid.
C4_ReplayLeavesStoreExactly ==
    Replayed =>
        /\ StoreUnchanged
        /\ IsPaid(flames[NamedFlame])

\* C4, amended: a second delivery of the same verified checkout-completed
\* event leaves the store as the first delivery left it except for the
\* last-updated timestamp: the flame stays paid, no field other than
\* updated_at changes and no record is added.
C4_ReplayIdempotentUpToTimestamp ==
    Replayed =>
        /\ WithoutUpdatedAt(flames) = WithoutUpdatedAt(prev.flames)
        /\ replies = prev.replies
        /\ IsPaid(flames[NamedFlame])
        /\ IsPaid(prev.flames[NamedFlame])

C4_Witness ==
    /\ Replayed
    /\ IsPaid(flames[NamedFlame])
    /\ flames[NamedFlame].updated_at # prev.flames[NamedFlame].updated_at

\* C5: every webhook event with a genuine signature is acknowledged with
\* {received: true}; a checkout-completed event without flame_id, or naming
\* no stored flame, is acknowledged too and creates and modifies nothing.
C5_VerifiedAlwaysAcknowledged ==
    (Delivered /\ Genuine(lastOp.req)) =>
        /\ lastOp.resp = Received
        /\ (IsCompleted(lastOp.req.payload) /\ NamedFlame \notin DOMAIN prev.flames) => StoreUnchanged

C5_Witness ==
    /\ DeliveredCompleted
    /\ NamedFlame \in ObjectIds
    /\ NamedFlame \notin DOMAIN prev.flames
    /\ prev.flames # EmptyDict
    /\ lastOp.resp = Received

NewReplies == DOMAIN replies \ DOMAIN prev.replies

\* C6: a reply to a stored basic flame fails Forbidden and persists nothing;
\* a valid reply to a stored premium flame succeeds and adds exactly one
\* reply carrying that flame's id; a reply to an unknown flame id fails
\* Not-Found and persists nothing.
C6_RepliesOnlyToPremium ==
    lastOp.op = "reply_flame" =>
        LET fid == lastOp.req.flame_id
        IN  /\ (fid \in DOMAIN flames /\ flames[fid].tier = "basic") =>
                  Status = 403 /\ replies = prev.replies
            /\ (fid \in DOMAIN flames /\ flames[fid].tier = "premium" /\ Status # 422 /\ Status # 500) =>
                  /\ Status = 200
                  /\ Cardinality(NewReplies) = 1
                  /\ \A r \in NewReplies : replies[r].flame_id = fid
            /\ (fid \notin DOMAIN flames /\ Status # 422 /\ Status # 500) =>
                  Status = 404 /\ replies = prev.replies

\* The admin key header the request carried matches the configured key.
AdminKeyMatches ==
    /\ Has(lastOp.req.headers, "x-admin-key")
    /\ lastOp.req.headers["x-admin-key"] = ADMIN_KEY

\* C7: the admin listing fails Unauthorized and returns no documents when
\* the admin-key header is missing or differs from the configured key; with
\* the header equal to a configured (non-empty) key it succeeds and every
\* document it returns is paid.
C7_AdminListingGated ==
    lastOp.op = "admin_flames" =>
        /\ ~AdminKeyMatches => (Status = 401 /\ ~Has(lastOp.resp, "body"))
        /\ (AdminKeyMatches /\ ADMIN_KEY # "") =>
              /\ Status = 200
              /\ \A d \in lastOp.resp.body.items : d.payment_status = "paid"
              /\ \A f \in DOMAIN flames : IsPaid(flames[f]) => flames[f] \in lastOp.resp.body.items

C7_Witness ==
    /\ lastOp.op = "admin_flames"
    /\ AdminKeyMatches
    /\ Status = 200
    /\ lastOp.resp.body.items # {}

\* C8: a checkout session is created only for a stored flame and a tier of
\* basic or premium, at 499 for basic and 999 for premium, carrying the
\* flame id and the tier; an absent flame gives Not-Found and an unknown
\* tier Invalid-Tier, with no session created.
C8_CheckoutOnlyForStoredFlame ==
    (lastOp.op = "checkout" /\ Has(lastOp.req, "flame_id") /\ Has(lastOp.req, "tier")
        /\ lastOp.resp # Err(400, "Stripe not configured")) =>
        LET fid  == lastOp.req.flame_id
            tier == lastOp.req.tier
        IN  /\ fid \notin DOMAIN flames => (Status = 404 /\ lastOp.created = {})
            /\ (fid \in DOMAIN flames /\ tier \notin Tiers) => (Status = 400 /\ lastOp.created = {})
            /\ \A c \in lastOp.created :
                  /\ fid \in DOMAIN flames
                  /\ tier \in Tiers
                  /\ c.unit_amount = (IF tier = "basic" THEN BasicPrice ELSE PremiumPrice)
                  /\ c.metadata = [flame_id |-> fid, tier |-> tier]

\* The creation input breaks a rule of the specification: a message below
\* the minimum length, more than three photos, or a photo URL that ends in
\* no allowed extension.
BreaksCreationRule(payload) ==
    \/ Has(payload, "message") /\ Len(payload.message) < RootMessageMinLen
    \/ Has(payload, "photos") /\ Len(payload.photos) > MaxPhotos
    \/ Has(payload, "photos") /\ \E i \in 1..Len(payload.photos) : ~EndsWithAllowed(payload.photos[i])

\* C9: a creation input with too short a message, more than three photos or
\* a photo URL without an allowed extension fails with a validation error
\* and the flame collection is unchanged.
C9_InvalidCreationRejected ==
    (lastOp.op = "create_flame" /\ BreaksCreationRule(lastOp.req)
        /\ lastOp.resp # Err(400, "CAPTCHA failed")) =>
        /\ Status = 422
        /\ flames = prev.flames

\* C10: handling a verified checkout-completed event changes only the
\* payment_status and the updated_at of the flame it names; every other
\* field, flame and reply is unchanged, and the watermark flag is still true
\* exactly when the tier is not premium.
C10_WebhookTouchesOnlyPaymentStatus ==
    (DeliveredCompleted /\ NamedFlame \in DOMAIN prev.flames) =>
        /\ DOMAIN flames = DOMAIN prev.flames
        /\ \A f \in DOMAIN flames \ {NamedFlame} : flames[f] = prev.flames[f]
        /\ \A k \in DOMAIN prev.flames[NamedFlame] \ {"payment_status", "updated_at"} :
              flames[NamedFlame][k] = prev.flames[NamedFlame][k]
        /\ DOMAIN flames[NamedFlame] = DOMAIN prev.flames[NamedFlame]
        /\ replies = prev.replies
        /\ Has(flames[NamedFlame], "watermark") =>
              (flames[NamedFlame].watermark <=> flames[NamedFlame].tier # "premium")

\* The delivery just handled moved the flame it names from unpaid to paid.
PaidNow ==
    /\ DeliveredCompleted
    /\ NamedFlame \in DOMAIN prev.flames
    /\ ~IsPaid(prev.flames[NamedFlame])
    /\ IsPaid(flames[NamedFlame])

\* The sessions created by checkout whose completion that delivery reports.
PayingSessions == {s \in sessions : SessionCompleted(s) = lastOp.req.payload}

TierPrice(tier) == IF tier = "premium" THEN PremiumPrice ELSE BasicPrice

\* C11: a flame that becomes paid through a checkout session is stored with
\* the tier of that session and was charged the price of its stored tier
\* (499 for basic, 999 for premium); in particular a flame stored as premium
\* is never paid through a session charged at the basic price.
C11_PaidThroughSessionOfStoredTier ==
    PaidNow =>
        \A s \in PayingSessions :
            /\ s.metadata.tier = flames[NamedFlame].tier
            /\ s.unit_amount = TierPrice(flames[NamedFlame].tier)

====
